---- MODULE Spec2Model ----
(***************************************************************************)
(* Model of the underwaterviz snapshot/visibility pipeline:                *)
(*   - backfill_visibility.py : the backfill scheduler (thread pool,       *)
(*     csv_lock, append_row, the filter against the existing log),         *)
(*   - visibility_estimator.py: the oracle client used by the backfill     *)
(*     (retry loop over rate-limit errors),                                *)
(*   - grab_snapshot.py       : the live single-shot run (capture, its own *)
(*     oracle client, append_visibility_csv, housekeeping).                *)
(* Strings are sequences of one-character strings, so that lower(),        *)
(* substring search, zfill and strftime are computed, not assumed.         *)
(***************************************************************************)
EXTENDS Integers, Sequences, FiniteSets, TLC

(* ------------------------------ bounds -------------------------------- *)
MaxImages == 2
MaxWorkers == 2
MaxLiveRuns == 1
MaxFrames == 2

(* ------------------------- program constants -------------------------- *)
max_retries == 5
DEFAULT_START == 6
DEFAULT_END == 19
noon == 12

Years == {2025, 2026}
Months == {1, 2}
Days == {1}
Hours == {5, 9, 13}
Minutes == {0, 37}

(* ------------------------------ strings ------------------------------- *)
\* str.lower() on the characters the model uses
LowerChar(c) ==
  CASE c = "N" -> "n"
    [] c = "A" -> "a"
    [] c = "R" -> "r"
    [] c = "L" -> "l"
    [] OTHER -> c

lower(s) == [i \in 1..Len(s) |-> LowerChar(s[i])]

\* Python's `p in t` on strings
Contains(p, t) ==
  \E i \in 1..(Len(t) - Len(p) + 1) : SubSeq(t, i, i + Len(p) - 1) = p

\* strftime("%H") / strftime("%M"): two decimal digits
Fmt2(n) == <<n \div 10, n % 10>>

\* str.zfill(width)
RECURSIVE zfill(_, _)
zfill(s, width) == IF Len(s) >= width THEN s ELSE zfill(<<0>> \o s, width)

\* int(h_str, 10)
RECURSIVE int10(_)
int10(s) == IF s = <<>> THEN 0 ELSE 10 * int10(SubSeq(s, 1, Len(s) - 1)) + s[Len(s)]

(* --------------------------- visibility value ------------------------- *)
\* float("nan") and float(n): the NaN sentinel is distinct from every number
NaN == [nan |-> TRUE, val |-> 0]
Float(n) == [nan |-> FALSE, val |-> n]

\* `vis_ft != vis_ft`, the NaN check of append_row / append_visibility_csv
IsNaN(v) == v.nan

\* vis_str: "" for the sentinel, str(vis_ft) otherwise
vis_str(v) == IF IsNaN(v) THEN <<>> ELSE <<v.val>>

(* ------------------------- oracle responses --------------------------- *)
S429 == <<"4", "2", "9">>
RateLimitMarker == <<"r", "a", "t", "e", "_", "l", "i", "m", "i", "t">>
NanStr == <<"n", "a", "n">>

\* error texts str(e) of exceptions raised by the API call
ErrHttp429 == <<"E"," ">> \o S429
ErrRateUpper == <<"R", "a", "t", "e", "_", "L", "i", "m", "i", "t">>
ErrAuth == <<"4", "0", "1">>
\* error texts of exceptions raised while decoding the response
ErrIndex == <<"I">>
ErrJson == <<"J">>
ErrValue(s) == <<"f", ":">> \o s
\* error text of an unreadable image / failing client construction
ErrSetup == <<"F">>

\* the decoded JSON object: its visibility_ft field and whether it has the
\* description field ("analysis" resp. "conditions")
JObj(vk, vn, vs, hasText) == [vk |-> vk, vn |-> vn, vs |-> vs, hasText |-> hasText]
NoObj == JObj("absent", 0, <<>>, FALSE)
DescText == <<"m">>

\* the response text as a sequence of segments: code fence, newline, a JSON
\* object, or text that is no JSON
Fence == [t |-> "fence", obj |-> NoObj]
NL == [t |-> "nl", obj |-> NoObj]
Junk == [t |-> "junk", obj |-> NoObj]
ObjSeg(o) == [t |-> "obj", obj |-> o]

ONum == JObj("num", 10, <<>>, TRUE)
ONanLower == JObj("str", 0, NanStr, TRUE)
ONanMixed == JObj("str", 0, <<"N", "a", "N">>, TRUE)
OAbsent == JObj("absent", 0, <<>>, TRUE)

ApiError(text) == [kind |-> "error", text |-> text, raw |-> <<>>]
Content(raw) == [kind |-> "content", text |-> <<>>, raw |-> raw]

Responses ==
  { ApiError(ErrHttp429), ApiError(ErrRateUpper), ApiError(ErrAuth),
    Content(<<ObjSeg(ONum)>>),
    Content(<<Fence, NL, ObjSeg(ONum), NL, Fence>>),
    Content(<<ObjSeg(ONanLower)>>),
    Content(<<ObjSeg(ONanMixed)>>),
    Content(<<ObjSeg(OAbsent)>>),
    Content(<<Junk>>) }

(* ------------------------- response parsing --------------------------- *)
Ok(v, t) == [ok |-> TRUE, err |-> <<>>, vis |-> v, text |-> t]
Raise(e) == [ok |-> FALSE, err |-> e, vis |-> NaN, text |-> <<>>]

\* str.strip(): drop leading and trailing whitespace
RECURSIVE strip(_)
strip(r) ==
  IF r = <<>> THEN r
  ELSE IF Head(r) = NL THEN strip(Tail(r))
  ELSE IF r[Len(r)] = NL THEN strip(SubSeq(r, 1, Len(r) - 1))
  ELSE r

Positions(r, seg) == {i \in 1..Len(r) : r[i] = seg}
Min(S) == CHOOSE x \in S : \A y \in S : x <= y
Max(S) == CHOOSE x \in S : \A y \in S : x >= y

\* float(vis) of a string: decimal digits only
DigitChars == {"0", "1", "2", "3", "4", "5", "6", "7", "8", "9"}
DigitOf(c) ==
  CASE c = "0" -> 0 [] c = "1" -> 1 [] c = "2" -> 2 [] c = "3" -> 3
    [] c = "4" -> 4 [] c = "5" -> 5 [] c = "6" -> 6 [] c = "7" -> 7
    [] c = "8" -> 8 [] OTHER -> 9
IsNumeric(s) == s # <<>> /\ \A i \in 1..Len(s) : s[i] \in DigitChars
ToNumber(s) == int10([i \in 1..Len(s) |-> DigitOf(s[i])])

\* raw.split("\n", 1)[1].rsplit("```", 1)[0].strip()
unfence(raw) ==
  IF Positions(raw, NL) = {} THEN Raise(ErrIndex)
  ELSE LET rest == SubSeq(raw, Min(Positions(raw, NL)) + 1, Len(raw))
           body == IF Positions(rest, Fence) = {} THEN rest
                   ELSE SubSeq(rest, 1, Max(Positions(rest, Fence)) - 1)
       IN  [ok |-> TRUE, err |-> <<>>, raw |-> strip(body)]

\* visibility_estimator.py 137-147 and grab_snapshot.py 346-356: from the
\* response text to (visibility, description), or the exception raised
parse_response(content) ==
  LET raw0 == strip(content)
      un == IF raw0 # <<>> /\ Head(raw0) = Fence
            THEN unfence(raw0)
            ELSE [ok |-> TRUE, err |-> <<>>, raw |-> raw0]
  IN  IF ~un.ok THEN Raise(un.err)
      ELSE IF ~(Len(un.raw) = 1 /\ un.raw[1].t = "obj") THEN Raise(ErrJson)
      ELSE LET result == un.raw[1].obj
               analysis == IF result.hasText THEN DescText ELSE <<>>
           IN  IF result.vk \in {"absent", "null"} THEN Ok(NaN, analysis)
               ELSE IF result.vk = "str" /\ lower(result.vs) = NanStr
                    THEN Ok(NaN, analysis)
               ELSE IF result.vk = "num" THEN Ok(Float(result.vn), analysis)
               ELSE IF IsNumeric(result.vs)
                    THEN Ok(Float(ToNumber(result.vs)), analysis)
               ELSE Raise(ErrValue(result.vs))

\* the outcome of one API call: the exception of the call itself, or the
\* parsed response
call_outcome(resp) ==
  IF resp.kind = "error" THEN Raise(resp.text) ELSE parse_response(resp.raw)

(* ----------------------- the two oracle clients ----------------------- *)
NotSet == <<"OPENAI_API_KEY not set">>
Exhausted == <<"error: rate limit retries exhausted">>
ErrorDesc(e) == <<"error: ">> \o e

\* visibility_estimator.py 151: the rate-limit test on the error text
is_rate_limit(err_str) ==
  Contains(S429, err_str) \/ Contains(RateLimitMarker, lower(err_str))

\* a loop that retries after every error
retry_any_error(attempt, resp) ==
  LET r == IF resp.kind = "error" THEN [ok |-> FALSE] ELSE [ok |-> parse_response(resp.raw).ok]
      p == parse_response(resp.raw)
  IN  IF r.ok THEN [next |-> "return", attempt |-> attempt, vis |-> p.vis, desc |-> p.text]
      ELSE IF attempt + 1 < max_retries
           THEN [next |-> "continue", attempt |-> attempt + 1, vis |-> NaN, desc |-> <<>>]
           ELSE [next |-> "return", attempt |-> attempt + 1, vis |-> NaN,
                 desc |-> <<"error: rate limit retries exhausted">>]

\* visibility_estimator.py 126-160: one iteration of the retry loop, at loop
\* index `attempt`, on API outcome `resp`.  next = "return" ends the estimate
\* with (vis, desc); next = "continue" goes to loop index `attempt`.
retry_step(attempt, resp) ==
  LET r == call_outcome(resp)
  IN  IF r.ok THEN [next |-> "return", attempt |-> attempt, vis |-> r.vis, desc |-> r.text]
      ELSE IF is_rate_limit(r.err)
           THEN IF attempt + 1 < max_retries
                THEN [next |-> "continue", attempt |-> attempt + 1, vis |-> NaN, desc |-> <<>>]
                ELSE [next |-> "return", attempt |-> attempt + 1, vis |-> NaN, desc |-> Exhausted]
      ELSE [next |-> "return", attempt |-> attempt, vis |-> NaN, desc |-> ErrorDesc(r.err)]

\* grab_snapshot.py 305-360: the live client, one call inside one try block
live_estimate(key, setupOk, resp) ==
  IF ~key THEN [vis |-> NaN, desc |-> NotSet]
  ELSE IF ~setupOk THEN [vis |-> NaN, desc |-> ErrorDesc(ErrSetup)]
  ELSE LET r == call_outcome(resp)
       IN  IF r.ok THEN [vis |-> r.vis, desc |-> r.text]
           ELSE [vis |-> NaN, desc |-> ErrorDesc(r.err)]

(* ------------------------ corpus and timestamps ----------------------- *)
\* snapshots/<year>/<month>/<day>/<stem>.png; the stem is the digit string
\* grab_snapshot.py wrote with strftime("%H")
SnapshotAt(y, m, d, h) == [year |-> y, month |-> m, day |-> d, stem |-> Fmt2(h)]
\* the year of the runs: the <year> argument of the backfill, the year of the
\* live runs' clock
ThisYear == Max(Years)
Snapshot(m, d, h) == SnapshotAt(ThisYear, m, d, h)
Slots == {Snapshot(m, d, h) : m \in Months, d \in Days, h \in Hours}

\* a timestamp string "YYYY-MM-DD HH:MM" by its parts
Timestamp(y, m, d, hh, mm) ==
  [year |-> y, month |-> m, day |-> d, hh |-> hh, mm |-> mm]

\* backfill_visibility.py 53-55 and 85-87: f"{year}-{month}-{day} {hour}:00"
backfill_timestamp(img, month) ==
  Timestamp(ThisYear, month, img.day, zfill(img.stem, 2), <<0, 0>>)

\* grab_snapshot.py 412: now.strftime("%Y-%m-%d %H:%M")
live_timestamp(t) ==
  Timestamp(t.year, t.month, t.day, Fmt2(t.hour), Fmt2(t.minute))

\* grab_snapshot.py 142-143
within_window(hour, start_h, end_h) == start_h <= hour /\ hour <= end_h

(* ------------------------------ the log ------------------------------- *)
\* the header row ["timestamp", "visibility_ft", "conditions"]
HeaderTs == Timestamp(0, 0, 0, <<>>, <<>>)
HeaderLine == [ts |-> HeaderTs, vis |-> <<>>, cond |-> <<>>]
\* the value of row.get("timestamp", "") when the file has no such column
EmptyTs == Timestamp(0, -1, 0, <<>>, <<>>)
Row(ts, v, analysis) == [ts |-> ts, vis |-> vis_str(v), cond |-> analysis]

\* a reader that takes only the rows with a visibility value
load_only_measured(exists, lines) ==
  IF ~exists \/ lines = <<>> THEN {}
  ELSE {lines[i].ts : i \in {k \in 2..Len(lines) : lines[k].vis # <<>>}}

\* a reader that also drops the first data row
load_skipping_first_row(exists, lines) ==
  IF ~exists \/ lines = <<>> THEN {}
  ELSE {lines[i].ts : i \in 3..Len(lines)}

\* backfill_visibility.py 31-38: csv.DictReader takes the first line as the
\* column names and yields one dict per later line
load_existing_timestamps(exists, lines) ==
  IF ~exists \/ lines = <<>> THEN {}
  ELSE IF Head(lines) = HeaderLine
       THEN {lines[i].ts : i \in 2..Len(lines)}
       ELSE {EmptyTs : i \in 2..Len(lines)}

\* sorted(snap_dir.rglob("*.png")): by day directory, then by file name
RECURSIVE SeqLess(_, _)
SeqLess(a, b) ==
  IF b = <<>> THEN FALSE
  ELSE IF a = <<>> THEN TRUE
  ELSE IF Head(a) # Head(b) THEN Head(a) < Head(b)
  ELSE SeqLess(Tail(a), Tail(b))

PathLess(a, b) == a.day < b.day \/ (a.day = b.day /\ SeqLess(a.stem, b.stem))

RECURSIVE sorted(_)
sorted(S) ==
  IF S = {} THEN <<>>
  ELSE LET first == CHOOSE x \in S : \A y \in S \ {x} : PathLess(x, y)
       IN  <<first>> \o sorted(S \ {first})

\* backfill_visibility.py 78: the images under snapshots/<year>/<month>
month_images(files, month) ==
  sorted({f \in files : f.year = ThisYear /\ f.month = month})

\* a filter that forgets the membership test
filter_nothing(images, month, known) == images

\* backfill_visibility.py 83-89: keep the images whose timestamp is not in
\* `existing`
RECURSIVE filter_unprocessed(_, _, _)
filter_unprocessed(images, month, known) ==
  IF images = <<>> THEN <<>>
  ELSE LET rest == filter_unprocessed(Tail(images), month, known)
       IN  IF backfill_timestamp(Head(images), month) \notin known
           THEN <<Head(images)>> \o rest
           ELSE rest

(* ------------------- the backfill client as a whole -------------------- *)
\* a client without the credential test
setup_without_key_check(key, setupOk) == IF ~setupOk THEN "raise" ELSE "call"

\* visibility_estimator.py 82-89: before the retry loop.  Without a key the
\* estimate returns at once; a failing import, client construction or image
\* read raises out of estimate_visibility (these lines are in no try block).
estimate_setup(key, setupOk) ==
  IF ~key THEN "return" ELSE IF ~setupOk THEN "raise" ELSE "call"

Returned(v, d) == [raised |-> FALSE, vis |-> v, desc |-> d]
Raised == [raised |-> TRUE, vis |-> NaN, desc |-> <<>>]

\* visibility_estimator.py 125-160: every result the retry loop can return
\* when entered at loop index `attempt`
RECURSIVE retry_loop(_)
retry_loop(attempt) ==
  UNION { LET s == retry_step(attempt, resp)
          IN  IF s.next = "return" THEN {Returned(s.vis, s.desc)}
              ELSE retry_loop(s.attempt)
          : resp \in Responses }

\* visibility_estimator.py 126: the loop is entered at index 0
RetryResults == retry_loop(0)

\* visibility_estimator.py 77-160: every outcome of one estimate_visibility
estimate_visibility(key, setupOk) ==
  CASE estimate_setup(key, setupOk) = "return" -> {Returned(NaN, NotSet)}
    [] estimate_setup(key, setupOk) = "raise" -> {Raised}
    [] OTHER -> RetryResults

(* --------------------------- capture chain ---------------------------- *)
\* grab_snapshot.py 82-137, capture_snapshot, over a page given by whether
\* its top-level document holds a <video> and, for each iframe in document
\* order, whether that frame's document holds one
Page(v, fs) == [video |-> v, frames |-> fs]
Pages ==
  {Page(v, fs) : v \in BOOLEAN, fs \in UNION {[1..k -> BOOLEAN] : k \in 0..MaxFrames}}

\* the file at out_path is "absent", "old" (the image an earlier run of the
\* same hour left), "empty" (zero bytes) or "image" (written by this call)

\* an attempt of a tier: which one, for an iframe its index, and whether it
\* set `took`
Tier(kind, n, took) == [tier |-> kind, n |-> n, took |-> took]

\* grab_snapshot.py 68-79: the outcomes of _try_video_screenshot in a context
\* with or without a <video>.  WebElement.screenshot() returns False without
\* raising when it cannot open or write the file; any driver error makes the
\* function return False.  fault: something other than "no such element"
\* went wrong.
try_video_screenshot(video, file) ==
  IF video
  THEN { [took |-> TRUE, file |-> "image", fault |-> FALSE],
         [took |-> TRUE, file |-> "empty", fault |-> TRUE],
         [took |-> TRUE, file |-> file, fault |-> TRUE],
         [took |-> FALSE, file |-> file, fault |-> TRUE] }
  ELSE { [took |-> FALSE, file |-> file, fault |-> FALSE] }

\* one call of capture_snapshot: position, page, browsing context of the
\* driver (0: top level, k: iframe k), `took`, the file at out_path, the loop
\* index, the tiers attempted so far, whether a driver call went wrong, and
\* the step that raised
CaptureStart(page, file) ==
  [pc |-> "load", page |-> page, ctx |-> 0, took |-> FALSE, file |-> file,
   i |-> 0, trace |-> <<>>, fault |-> FALSE, why |-> "none"]
CaptureIdle == [CaptureStart(Page(FALSE, <<>>), "absent") EXCEPT !.pc = "idle"]

\* an exception leaving capture_snapshot (136-137: the driver quits)
raise_from(c, step) == [c EXCEPT !.pc = "raised", !.why = step, !.fault = TRUE]

\* lines 99 and 113 tested without looking at `took`
attempt_always(took) == TRUE

\* grab_snapshot.py 99, 113: `if not took`
attempt_next(took) == ~took

\* line 110 left out
context_kept(ctx) == ctx

\* grab_snapshot.py 110: driver.switch_to.default_content()
default_content(ctx) == 0

\* grab_snapshot.py 84-90: the driver, the page load and the readyState wait
load_step(c) == { [c EXCEPT !.pc = "top"], raise_from(c, "load") }

\* grab_snapshot.py 95-96: the top-level tier
top_step(c) ==
  { [c EXCEPT !.took = o.took, !.file = o.file, !.fault = c.fault \/ o.fault,
              !.trace = Append(c.trace, Tier("top", 0, o.took)),
              !.pc = IF attempt_next(o.took) THEN "find" ELSE "check"] :
      o \in try_video_screenshot(c.page.video, c.file) }

\* grab_snapshot.py 100: driver.find_elements(By.TAG_NAME, "iframe")
find_step(c) == { [c EXCEPT !.pc = "frame", !.i = 1], raise_from(c, "find") }

\* grab_snapshot.py 101-109: one pass of the loop over the iframes, or its end
frame_step(c) ==
  IF c.i > Len(c.page.frames)
  THEN { [c EXCEPT !.pc = "restore"] }
  ELSE { [c EXCEPT !.i = c.i + 1, !.fault = TRUE],               \* 103 raised
         [c EXCEPT !.i = c.i + 1, !.fault = TRUE,
                   !.ctx = default_content(c.ctx)] }             \* 104 raised
       \cup
       { [c EXCEPT !.ctx = c.i, !.took = o.took, !.file = o.file,
                   !.fault = c.fault \/ o.fault,
                   !.trace = Append(c.trace, Tier("frame", c.i, o.took)),
                   !.i = c.i + 1,
                   !.pc = IF o.took THEN "restore" ELSE "frame"] :
           o \in try_video_screenshot(c.page.frames[c.i], c.file) }

\* grab_snapshot.py 110, then the test of line 113
restore_step(c) ==
  { [c EXCEPT !.ctx = default_content(c.ctx),
              !.pc = IF attempt_next(c.took) THEN "full" ELSE "check"],
    raise_from(c, "restore") }

\* grab_snapshot.py 114-121: the full-page tier; an error of the resize is
\* swallowed, save_screenshot returns False without raising when it cannot
\* open or write the file
full_step(c) ==
  LET t == [c EXCEPT !.trace = Append(c.trace, Tier("full", 0, FALSE))]
  IN  { [t EXCEPT !.pc = "check", !.file = "image"],
        [t EXCEPT !.pc = "check", !.file = "empty", !.fault = TRUE],
        [t EXCEPT !.pc = "check", !.fault = TRUE],
        raise_from(t, "full") }

\* grab_snapshot.py 124-125: the sanity check
check_step(c) ==
  IF c.file \in {"absent", "empty"}
  THEN { raise_from(c, "check") }
  ELSE { [c EXCEPT !.pc = "resize"] }

\* grab_snapshot.py 128-133: the image is brought to 1920x940 in place
resize_step(c) == { [c EXCEPT !.pc = "returned"] }

capture_next(c) ==
  CASE c.pc = "load" -> load_step(c)
    [] c.pc = "top" -> top_step(c)
    [] c.pc = "find" -> find_step(c)
    [] c.pc = "frame" -> frame_step(c)
    [] c.pc = "restore" -> restore_step(c)
    [] c.pc = "full" -> full_step(c)
    [] c.pc = "check" -> check_step(c)
    [] c.pc = "resize" -> resize_step(c)
    [] OTHER -> {}

\* capture_snapshot as a whole: every way a call can end
RECURSIVE capture_run(_)
capture_run(c) ==
  IF c.pc \in {"returned", "raised"} THEN {c}
  ELSE UNION {capture_run(n) : n \in capture_next(c)}

capture_snapshot(file) ==
  {[ok |-> c.pc = "returned", file |-> c.file] :
     c \in UNION {capture_run(CaptureStart(p, file)) : p \in Pages}}
CaptureFresh == capture_snapshot("absent")
CaptureOver == capture_snapshot("old")

(* ----------------------- housekeeping, manifests ---------------------- *)
\* a calendar day, and the directory snapshots/<year>/<month>/<day>
Date(y, m, d) == [year |-> y, month |-> m, day |-> d]
DateOf(x) == Date(x.year, x.month, x.day)
DayDirs(files) == {DateOf(f) : f \in files}

\* the Gregorian calendar datetime arithmetic runs on
DaysIn(y, m) ==
  IF m = 2
  THEN (IF (y % 4 = 0 /\ y % 100 # 0) \/ y % 400 = 0 THEN 29 ELSE 28)
  ELSE IF m \in {4, 6, 9, 11} THEN 30 ELSE 31

\* date - timedelta(days=1)
prev_day(dt) ==
  IF dt.day > 1 THEN Date(dt.year, dt.month, dt.day - 1)
  ELSE IF dt.month > 1 THEN Date(dt.year, dt.month - 1, DaysIn(dt.year, dt.month - 1))
  ELSE Date(dt.year - 1, 12, 31)

\* grab_snapshot.py 200: now - timedelta(days=offset)
RECURSIVE minus_days(_, _)
minus_days(dt, offset) ==
  IF offset = 0 THEN dt ELSE minus_days(prev_day(dt), offset - 1)

\* a cleanup that only looks past the end of the window
clean_after_window(files, start_h, end_h) ==
  {f \in files : int10(f.stem) <= end_h}

\* grab_snapshot.py 146-160: the files clean_outside_window leaves (every
\* stem of the corpus is a digit string, so no file is skipped at line 153)
clean_outside_window(files, start_h, end_h) ==
  {f \in files : within_window(int10(f.stem), start_h, end_h)}

\* float(vis), or None on ValueError
float_or_none(str) ==
  IF Len(str) = 1 THEN [none |-> FALSE, val |-> str[1]] ELSE [none |-> TRUE, val |-> 0]

\* ts[:13]: "YYYY-MM-DD HH"
hour_key(ts) ==
  [year |-> ts.year, month |-> ts.month, day |-> ts.day,
   hh |-> SubSeq(ts.hh, 1, IF Len(ts.hh) < 2 THEN Len(ts.hh) ELSE 2)]

\* grab_snapshot.py 163-182, _load_visibility_data: the rows csv.DictReader
\* yields, in order; a later row of the same hour replaces an earlier one
vis_rows(exists, lines) ==
  IF ~exists \/ lines = <<>> \/ Head(lines) # HeaderLine THEN <<>>
  ELSE Tail(lines)

\* the first row of an hour is kept and later ones are ignored
vis_lookup_first(rows, key) ==
  LET hits == {k \in 1..Len(rows) : hour_key(rows[k].ts) = key}
  IN  IF hits = {} THEN [found |-> FALSE, none |-> TRUE, val |-> 0, cond |-> <<>>]
      ELSE LET r == rows[Min(hits)]
               v == float_or_none(r.vis)
           IN  [found |-> TRUE, none |-> v.none, val |-> v.val, cond |-> r.cond]

\* grab_snapshot.py 165-182, 234: vis_data.get(vis_key)
vis_lookup(rows, key) ==
  LET hits == {k \in 1..Len(rows) : hour_key(rows[k].ts) = key}
  IN  IF hits = {} THEN [found |-> FALSE, none |-> TRUE, val |-> 0, cond |-> <<>>]
      ELSE LET r == rows[Max(hits)]
               v == float_or_none(r.vis)
           IN  [found |-> TRUE, none |-> v.none, val |-> v.val, cond |-> r.cond]

\* grab_snapshot.py 211: day_dir.glob("*.png"), in the order the directory
\* yields its entries; `order` lists the stems in that order
glob(files, day, order) ==
  LET InDay(st) == [year |-> day.year, month |-> day.month, day |-> day.day,
                    stem |-> st] \in files
  IN  SelectSeq(order, InDay)

\* a candidate as close to noon as the best so far replaces it
closer_or_equal(diff, best_diff) == diff <= best_diff

\* grab_snapshot.py 219: diff < best_diff
closer(diff, best_diff) == diff < best_diff

abs(n) == IF n < 0 THEN -n ELSE n

\* grab_snapshot.py 208-221: the closest-to-noon stem of a day, <<>> for None
RECURSIVE closest_to_noon(_, _, _, _, _)
closest_to_noon(stems, start_h, end_h, best_file, best_diff) ==
  IF stems = <<>> THEN best_file
  ELSE LET h == int10(Head(stems))
           diff == abs(h - noon)
       IN  IF within_window(h, start_h, end_h) /\ closer(diff, best_diff)
           THEN closest_to_noon(Tail(stems), start_h, end_h, Head(stems), diff)
           ELSE closest_to_noon(Tail(stems), start_h, end_h, best_file, best_diff)

\* grab_snapshot.py 224-238: the manifest entry of a day
Entry(day, stem, info) ==
  [file |-> [date |-> day, stem |-> stem], date |-> day, time |-> stem,
   enriched |-> info.found /\ ~info.none,
   visibility_ft |-> IF info.found /\ ~info.none THEN info.val ELSE 0,
   conditions |-> IF info.found /\ ~info.none THEN info.cond ELSE <<>>]

\* the loop of line 199 running one day further back
offsets_8 == 7 + 1

\* grab_snapshot.py 199: range(0, 7)
last7_offsets == 7

\* grab_snapshot.py 185-241: build_last7days; the manifest it writes
RECURSIVE build_last7days(_, _, _, _, _, _, _, _)
build_last7days(files, dirs, rows, today, start_h, end_h, order, offset) ==
  IF offset >= last7_offsets THEN <<>>
  ELSE LET day == minus_days(today, offset)
           rest == build_last7days(files, dirs, rows, today, start_h, end_h,
                                   order, offset + 1)
           best == closest_to_noon(glob(files, day, order), start_h, end_h,
                                   <<>>, 1000000000)
       IN  IF day \notin dirs \/ best = <<>> THEN rest
           ELSE <<Entry(day, best,
                        vis_lookup(rows, [year |-> day.year, month |-> day.month,
                                          day |-> day.day, hh |-> zfill(best, 2)]))>>
                \o rest

\* sorted(...) of the year and of the month directories: by name, four and
\* two digits
MonthLess(a, b) ==
  a.year < b.year \/ (a.year = b.year /\ SeqLess(Fmt2(a.month), Fmt2(b.month)))

RECURSIVE sorted_months(_)
sorted_months(S) ==
  IF S = {} THEN <<>>
  ELSE LET first == CHOOSE x \in S : \A y \in S \ {x} : MonthLess(x, y)
       IN  <<first>> \o sorted_months(S \ {first})

\* every month directory is listed, with or without a PNG below it
has_dir(files, ym) == TRUE

\* grab_snapshot.py 253: any PNG below the month directory
has_files(files, ym) == \E f \in files : f.year = ym.year /\ f.month = ym.month

\* grab_snapshot.py 244-258: build_months_manifest
build_months_manifest(files, dirs) ==
  LET month_dirs == {[year |-> d.year, month |-> d.month] : d \in dirs}
  IN  sorted_months({ym \in month_dirs : has_files(files, ym)})

(* ------------------------------- state -------------------------------- *)
VARIABLES
  corpus,      \* the snapshot files on disk
  csvExists,   \* docs/visibility.csv exists
  csvLines,    \* its lines
  apiKey,      \* OPENAI_API_KEY is set
  \* backfill_visibility.py
  bpc,         \* main: "idle", "loaded", "pool", "reported", "killed"
  bmonth,      \* the month argument
  workers,     \* the workers argument
  existing,    \* load_existing_timestamps()
  to_process,  \* the images submitted to the pool
  fut,         \* one future per submitted image
  collected,   \* the futures as_completed has yielded
  done,        \* main's counter
  reported,    \* the count of "Done! Processed {done} images."
  lock,        \* csv_lock: 0 or the future holding it
  log0,        \* the log as load_existing_timestamps read it
  commits,     \* the futures in the order they acquired csv_lock
  prevMonth,   \* the month of the previous run if it reached its report, else 0
  \* visibility_estimator.py / grab_snapshot.py: one estimate, step by step
  est,
  \* grab_snapshot.py main
  lpc, now, lres, lwh, liveRuns, exitCode,
  window,      \* the --start-hour / --end-hour arguments of the run
  dirs,        \* the day directories under snapshots/
  dirOrder,    \* the order in which a day directory yields its entries
  lcap,        \* the outcome of capture_snapshot and the file at out_file
  hk,          \* the run has done its housekeeping
  last7,       \* docs/last7days/last7days.json
  months,      \* docs/months.json
  ltrace,      \* what the run has done so far: "browser", "oracle", "row", "manifests"
  \* grab_snapshot.py capture_snapshot, step by step
  cap

diskVars == <<corpus, csvExists, csvLines>>
bfVars == <<bpc, bmonth, workers, existing, to_process, fut, collected, done,
            reported, lock, log0, commits, prevMonth>>
liveVars == <<lpc, now, lres, lwh, liveRuns, exitCode, window, dirs, dirOrder,
              lcap, hk, last7, months, ltrace, cap>>
vars == <<corpus, csvExists, csvLines, apiKey, bpc, bmonth, workers, existing,
          to_process, fut, collected, done, reported, lock, log0,
          commits, prevMonth, est, lpc, now, lres, lwh, liveRuns, exitCode,
          window, dirs, dirOrder, lcap, hk, last7, months, ltrace, cap>>

(* --------------------------- backfill: main --------------------------- *)
Future(st, v, d, wh) == [st |-> st, vis |-> v, desc |-> d, wh |-> wh]
Queued == Future("queued", NaN, <<>>, FALSE)

Finished(f) == f.st \in {"done", "raised"}
Running(f) == f.st \notin {"queued", "done", "raised"}
Indices == DOMAIN fut

\* backfill_visibility.py 76: existing = load_existing_timestamps()
BackfillLoad(m, w) ==
  /\ bpc \in {"idle", "reported", "killed"}
  /\ bpc' = "loaded"
  /\ bmonth' = m
  /\ workers' = w
  /\ existing' = load_existing_timestamps(csvExists, csvLines)
  /\ log0' = csvLines
  /\ prevMonth' = IF bpc = "reported" THEN bmonth ELSE 0
  /\ to_process' = <<>>
  /\ fut' = <<>>
  /\ collected' = {}
  /\ commits' = <<>>
  /\ done' = 0
  /\ reported' = -1
  /\ lock' = 0
  /\ UNCHANGED <<diskVars, apiKey, est, liveVars>>

\* backfill_visibility.py 78-100: list the month's images, filter, submit
BackfillSubmit ==
  /\ bpc = "loaded"
  /\ to_process' = filter_unprocessed(month_images(corpus, bmonth), bmonth, existing)
  /\ fut' = [i \in 1..Len(to_process') |-> Queued]
  /\ bpc' = "pool"
  /\ UNCHANGED <<diskVars, apiKey, est, liveVars, bmonth, workers, existing,
                 collected, done, reported, lock, log0, commits, prevMonth>>

\* backfill_visibility.py 103-108: one iteration of the as_completed loop;
\* `raised` tells whether fut.result() raised
count_completed(n, raised) == n + 1

\* a loop without the try block: the exception leaves main
result_unhandled(raised) == IF raised THEN "aborted" ELSE "pool"

\* backfill_visibility.py 105-108: fut.result() inside try/except Exception:
\* where main is after the result of a future, raised or not
after_result(raised) == "pool"

Collect(i) ==
  /\ bpc = "pool"
  /\ i \in Indices \ collected
  /\ Finished(fut[i])
  /\ collected' = collected \cup {i}
  /\ done' = count_completed(done, fut[i].st = "raised")
  /\ bpc' = after_result(fut[i].st = "raised")
  /\ UNCHANGED <<diskVars, apiKey, est, liveVars, bmonth, workers, existing,
                 to_process, fut, reported, lock, log0, commits, prevMonth>>

\* backfill_visibility.py 103-110: whether main leaves the as_completed loop
\* and the executor's with block
pool_finished(futures, seen) == seen = DOMAIN futures

Report ==
  /\ bpc = "pool"
  /\ pool_finished(fut, collected)
  /\ bpc' = "reported"
  /\ reported' = done
  /\ UNCHANGED <<diskVars, apiKey, est, liveVars, bmonth, workers, existing,
                 to_process, fut, collected, done, lock, log0, commits,
                 prevMonth>>

\* the process is killed during a run: its threads, futures and lock are
\* gone, the log file stays as written so far
Interrupt ==
  /\ bpc \in {"loaded", "pool"}
  /\ bpc' = "killed"
  /\ to_process' = <<>>
  /\ fut' = <<>>
  /\ collected' = {}
  /\ commits' = <<>>
  /\ existing' = {}
  /\ done' = 0
  /\ lock' = 0
  /\ bmonth' = 1
  /\ workers' = 1
  /\ reported' = -1
  /\ log0' = <<>>
  /\ prevMonth' = 0
  /\ UNCHANGED <<diskVars, apiKey, est, liveVars>>

(* -------------------------- backfill: workers ------------------------- *)
\* ThreadPoolExecutor(max_workers): a queued future starts when it is the
\* oldest one queued and fewer than max_workers are running
may_start(futures, i, max_workers) ==
  /\ futures[i].st = "queued"
  /\ \A j \in 1..(i - 1) : futures[j].st # "queued"
  /\ Cardinality({j \in DOMAIN futures : Running(futures[j])}) < max_workers

\* backfill_visibility.py 52-56: process_image up to the return of
\* estimate_visibility.  The estimate touches nothing shared, so it is one
\* step; the file must still be on disk for the image read to succeed.
ItemEstimate(i) ==
  /\ bpc = "pool"
  /\ i \in Indices
  /\ may_start(fut, i, workers)
  /\ \E setupOk \in BOOLEAN :
       /\ setupOk => to_process[i] \in corpus
       /\ \E out \in estimate_visibility(apiKey, setupOk) :
            fut' = [fut EXCEPT ![i] =
                      IF out.raised THEN Future("raised", NaN, <<>>, FALSE)
                      ELSE Future("estimated", out.vis, out.desc, FALSE)]
  /\ UNCHANGED <<diskVars, apiKey, est, liveVars, bpc, bmonth, workers, existing,
                 to_process, collected, done, reported, lock, log0,
                 commits, prevMonth>>

\* append_row without the lock
lock_ignored(l) == TRUE

\* backfill_visibility.py 42: `with csv_lock:` is entered when no other
\* thread holds the lock
lock_free(l) == l = 0

\* backfill_visibility.py 43
write_header(exists, lines) == ~exists \/ Len(lines) = 0

\* backfill_visibility.py 42-43: enter the lock and look at the file.  The
\* lock is private to the process, so entering it and the stat of the file
\* are one step for every other thread and process.

AcquireLock(i) ==
  /\ bpc = "pool"
  /\ i \in Indices
  /\ fut[i].st = "estimated"
  /\ lock_free(lock)
  /\ lock' = i
  /\ commits' = Append(commits, i)
  /\ fut' = [fut EXCEPT ![i].st = "locked",
                        ![i].wh = write_header(csvExists, csvLines)]
  /\ UNCHANGED <<diskVars, apiKey, est, liveVars, bpc, bmonth, workers, existing,
                 to_process, collected, done, reported, log0, prevMonth>>

\* backfill_visibility.py 44-47: open for append (creates the file), header
OpenAndHeader(i) ==
  /\ bpc = "pool"
  /\ i \in Indices
  /\ fut[i].st = "locked"
  /\ csvExists' = TRUE
  /\ csvLines' = IF fut[i].wh THEN Append(csvLines, HeaderLine) ELSE csvLines
  /\ fut' = [fut EXCEPT ![i].st = "open"]
  /\ UNCHANGED <<corpus, apiKey, est, liveVars, bpc, bmonth, workers, existing,
                 to_process, collected, done, reported, lock, log0,
                 commits, prevMonth>>

\* a with block that leaves csv_lock held
lock_kept(l, i) == l

\* backfill_visibility.py 42, 49: the end of `with csv_lock:` releases the
\* lock its thread holds
unlock(l, i) == IF l = i THEN 0 ELSE l

\* backfill_visibility.py 48-49, 58-59: the row, the end of the with blocks
\* (the lock is released), and the return of process_image
WriteRow(i) ==
  /\ bpc = "pool"
  /\ i \in Indices
  /\ fut[i].st = "open"
  /\ csvLines' = Append(csvLines,
                   Row(backfill_timestamp(to_process[i], bmonth), fut[i].vis, fut[i].desc))
  /\ lock' = unlock(lock, i)
  /\ fut' = [fut EXCEPT ![i].st = "done"]
  /\ UNCHANGED <<corpus, csvExists, apiKey, est, liveVars, bpc, bmonth, workers,
                 existing, to_process, collected, done, reported, log0,
                 commits, prevMonth>>

(* ------------------- one estimate, call by call ----------------------- *)
\* est: the client running ("backfill": visibility_estimator.py, "live":
\* grab_snapshot.py), its position, the loop index, the API calls made, the
\* error texts of the failed calls, the last response, and the result
Estimate(client, st, attempt, calls, errors, last, v, d) ==
  [client |-> client, st |-> st, attempt |-> attempt, calls |-> calls,
   errors |-> errors, last |-> last, vis |-> v, desc |-> d]
NoResponse == [kind |-> "none", text |-> <<>>, raw |-> <<>>]
EstIdle == Estimate("none", "idle", 0, 0, <<>>, NoResponse, NaN, <<>>)

\* visibility_estimator.py 82-91: the call of estimate_visibility
OracleBegin(setupOk) ==
  /\ est.st \in {"idle", "returned", "raised"}
  /\ est' = CASE estimate_setup(apiKey, setupOk) = "return"
                   -> Estimate("backfill", "returned", 0, 0, <<>>, NoResponse, NaN, NotSet)
              [] estimate_setup(apiKey, setupOk) = "raise"
                   -> Estimate("backfill", "raised", 0, 0, <<>>, NoResponse, NaN, <<>>)
              [] OTHER
                   -> Estimate("backfill", "calling", 0, 0, <<>>, NoResponse, NaN, <<>>)
  /\ UNCHANGED <<diskVars, apiKey, bfVars, liveVars>>

\* visibility_estimator.py 126-160: one pass of the retry loop
OracleAttempt ==
  /\ est.client = "backfill"
  /\ est.st = "calling"
  /\ \E resp \in Responses :
       LET s == retry_step(est.attempt, resp)
           r == call_outcome(resp)
           errs == IF r.ok THEN est.errors ELSE Append(est.errors, r.err)
       IN  est' = Estimate("backfill",
                           IF s.next = "return" THEN "returned" ELSE "calling",
                           s.attempt, est.calls + 1, errs, resp, s.vis, s.desc)
  /\ UNCHANGED <<diskVars, apiKey, bfVars, liveVars>>

\* grab_snapshot.py 305-360: the live client from call to return
OracleLive(setupOk) ==
  /\ est.st \in {"idle", "returned", "raised"}
  /\ \E resp \in Responses :
       LET out == live_estimate(apiKey, setupOk, resp)
           called == apiKey /\ setupOk
           r == call_outcome(resp)
       IN  est' = Estimate("live", "returned", 0,
                           IF called THEN 1 ELSE 0,
                           IF ~apiKey THEN <<>>
                           ELSE IF ~setupOk THEN <<ErrSetup>>
                           ELSE IF r.ok THEN <<>> ELSE <<r.err>>,
                           IF called THEN resp ELSE NoResponse,
                           out.vis, out.desc)
  /\ UNCHANGED <<diskVars, apiKey, bfVars, liveVars>>

(* ----------------------------- live run ------------------------------- *)
TimeAt(y, m, d, h, mi) ==
  [year |-> y, month |-> m, day |-> d, hour |-> h, minute |-> mi]
Time(m, d, h, mi) == TimeAt(ThisYear, m, d, h, mi)
Times == {Time(m, d, h, mi) : m \in Months, d \in Days, h \in Hours, mi \in Minutes}
TimeKey(t) ==
  (((t.year * 13 + t.month) * 32 + t.day) * 24 + t.hour) * 60 + t.minute
NoResult == [vis |-> NaN, desc |-> <<>>]

\* the variables of the live run that only LiveStart and LiveCapture write
runVars == <<now, liveRuns, window, dirOrder, cap>>
manifestVars == <<hk, last7, months>>

Window(a, b) == [start_h |-> a, end_h |-> b]
DefaultWindow == Window(DEFAULT_START, DEFAULT_END)
OutFile == SnapshotAt(now.year, now.month, now.day, now.hour)

\* grab_snapshot.py 378-400: the arguments, datetime.now() (the clock does
\* not run backwards), out_dir.mkdir
LiveStart(t, w) ==
  /\ lpc \in {"idle", "exited"}
  /\ liveRuns < MaxLiveRuns
  /\ TimeKey(t) >= TimeKey(now)
  /\ now' = t
  /\ window' = w
  /\ dirs' = dirs \cup {DateOf(t)}
  /\ liveRuns' = liveRuns + 1
  /\ lpc' = "started"
  /\ lres' = NoResult
  /\ lwh' = FALSE
  /\ exitCode' = -1
  /\ hk' = FALSE
  /\ ltrace' = <<>>
  /\ lcap' = [res |-> "none",
              file |-> IF SnapshotAt(t.year, t.month, t.day, t.hour) \in corpus
                       THEN "old" ELSE "absent"]
  /\ UNCHANGED <<diskVars, apiKey, bfVars, est, dirOrder, last7, months, cap>>

\* main going on whatever capture_snapshot did
capture_ignored(ok, file) == TRUE

\* grab_snapshot.py 405-408, 418-420: main goes on to the estimate when
\* capture_snapshot returned and out_file exists and is not empty
capture_saved(ok, file) == ok /\ file \notin {"absent", "empty"}

\* grab_snapshot.py 403-409, 418-422: the window test, capture_snapshot, the
\* test of out_file, and sys.exit(1) when the capture raised
LiveCapture ==
  /\ lpc = "started"
  /\ IF within_window(now.hour, window.start_h, window.end_h)
     THEN \E o \in (IF lcap.file = "old" THEN CaptureOver ELSE CaptureFresh) :
            /\ corpus' = IF o.file = "absent" THEN corpus \ {OutFile}
                         ELSE corpus \cup {OutFile}
            /\ lcap' = [res |-> IF o.ok THEN "ok" ELSE "raised", file |-> o.file]
            /\ ltrace' = Append(ltrace, "browser")
            /\ IF capture_saved(o.ok, o.file)
               THEN lpc' = "captured" /\ exitCode' = exitCode
               ELSE lpc' = "exited" /\ exitCode' = 1
     ELSE /\ corpus' = corpus
          /\ lcap' = lcap
          /\ ltrace' = ltrace
          /\ lpc' = "housekeeping"
          /\ exitCode' = exitCode
  /\ UNCHANGED <<csvExists, csvLines, apiKey, bfVars, est, lres, lwh, runVars,
                 dirs, manifestVars>>

\* grab_snapshot.py 412-414: estimate_visibility(out_file)
LiveEstimate ==
  /\ lpc = "captured"
  /\ \E setupOk \in BOOLEAN, resp \in Responses :
       /\ setupOk => OutFile \in corpus
       /\ lres' = live_estimate(apiKey, setupOk, resp)
  /\ lpc' = "estimated"
  /\ ltrace' = Append(ltrace, "oracle")
  /\ UNCHANGED <<diskVars, apiKey, bfVars, est, lwh, exitCode, runVars, dirs,
                 lcap, manifestVars>>

\* grab_snapshot.py 365
live_write_header(exists) == ~exists

LiveCheckHeader ==
  /\ lpc = "estimated"
  /\ lwh' = live_write_header(csvExists)
  /\ lpc' = "checked"
  /\ UNCHANGED <<diskVars, apiKey, bfVars, est, lres, exitCode, runVars, dirs,
                 lcap, manifestVars, ltrace>>

\* grab_snapshot.py 366-370: open for append (creates the file), header
LiveOpenAndHeader ==
  /\ lpc = "checked"
  /\ csvExists' = TRUE
  /\ csvLines' = IF lwh THEN Append(csvLines, HeaderLine) ELSE csvLines
  /\ lpc' = "open"
  /\ UNCHANGED <<corpus, apiKey, bfVars, est, lres, lwh, exitCode, runVars, dirs,
                 lcap, manifestVars, ltrace>>

\* grab_snapshot.py 371-372, 415-416
LiveWriteRow ==
  /\ lpc = "open"
  /\ csvLines' = Append(csvLines, Row(live_timestamp(now), lres.vis, lres.desc))
  /\ lpc' = "housekeeping"
  /\ ltrace' = Append(ltrace, "row")
  /\ UNCHANGED <<corpus, csvExists, apiKey, bfVars, est, lres, lwh, exitCode,
                 runVars, dirs, lcap, manifestVars>>

\* grab_snapshot.py 424-428: clean_outside_window, build_last7days,
\* build_months_manifest, then the normal end of main
LiveHousekeeping ==
  /\ lpc = "housekeeping"
  /\ LET kept == clean_outside_window(corpus, window.start_h, window.end_h)
     IN  /\ corpus' = kept
         /\ last7' = build_last7days(kept, dirs, vis_rows(csvExists, csvLines),
                                     DateOf(now), window.start_h, window.end_h,
                                     dirOrder, 0)
         /\ months' = build_months_manifest(kept, dirs)
  /\ hk' = TRUE
  /\ ltrace' = Append(ltrace, "manifests")
  /\ lpc' = "exited"
  /\ exitCode' = 0
  /\ UNCHANGED <<csvExists, csvLines, apiKey, bfVars, est, lres, lwh, runVars,
                 dirs, lcap>>

(* ------------------ capture_snapshot, step by step -------------------- *)
otherVars == <<diskVars, apiKey, bfVars, est, lpc, now, lres, lwh, liveRuns,
               exitCode, window, dirs, dirOrder, lcap, hk, last7, months, ltrace>>

\* grab_snapshot.py 82: a call, on some page, with or without a file of an
\* earlier run at out_path
CaptureBegin(page, file) ==
  /\ cap.pc \in {"idle", "returned", "raised"}
  /\ cap' = CaptureStart(page, file)
  /\ UNCHANGED otherVars

CaptureLoad == cap.pc = "load" /\ cap' \in load_step(cap) /\ UNCHANGED otherVars
CaptureTop == cap.pc = "top" /\ cap' \in top_step(cap) /\ UNCHANGED otherVars
CaptureFind == cap.pc = "find" /\ cap' \in find_step(cap) /\ UNCHANGED otherVars
CaptureFrame == cap.pc = "frame" /\ cap' \in frame_step(cap) /\ UNCHANGED otherVars
CaptureRestore == cap.pc = "restore" /\ cap' \in restore_step(cap) /\ UNCHANGED otherVars
CaptureFull == cap.pc = "full" /\ cap' \in full_step(cap) /\ UNCHANGED otherVars
CaptureCheck == cap.pc = "check" /\ cap' \in check_step(cap) /\ UNCHANGED otherVars
CaptureResize == cap.pc = "resize" /\ cap' \in resize_step(cap) /\ UNCHANGED otherVars

(* --------------------------- specifications --------------------------- *)
BackfillIdle ==
  /\ bpc = "idle" /\ bmonth = 1 /\ workers = 1 /\ existing = {}
  /\ to_process = <<>> /\ fut = <<>> /\ collected = {} /\ done = 0
  /\ reported = -1 /\ lock = 0 /\ log0 = <<>> /\ commits = <<>>
  /\ prevMonth = 0

StemsAscending == <<Fmt2(5), Fmt2(9), Fmt2(13), Fmt2(15)>>
StemsDescending == <<Fmt2(15), Fmt2(13), Fmt2(9), Fmt2(5)>>

LiveIdle ==
  /\ lpc = "idle" /\ lres = NoResult /\ lwh = FALSE
  /\ liveRuns = 0 /\ exitCode = -1
  /\ window = DefaultWindow
  /\ lcap = [res |-> "none", file |-> "absent"]
  /\ hk = FALSE
  /\ ltrace = <<>>
  /\ cap = CaptureIdle

\* before the first live run: the clock, the directories of the files, one
\* directory order, no manifest yet
LiveFresh ==
  /\ LiveIdle
  /\ now = Time(1, 1, 5, 0)
  /\ dirs = DayDirs(corpus)
  /\ dirOrder = StemsAscending
  /\ last7 = <<>> /\ months = <<>>

\* a fresh checkout: no snapshot, no log
Init ==
  /\ corpus = {} /\ csvExists = FALSE /\ csvLines = <<>>
  /\ apiKey \in BOOLEAN
  /\ est = EstIdle
  /\ BackfillIdle
  /\ LiveFresh

BackfillNext ==
  \/ \E m \in Months, w \in 1..MaxWorkers : BackfillLoad(m, w)
  \/ BackfillSubmit
  \/ \E i \in Indices : ItemEstimate(i)
  \/ \E i \in Indices : AcquireLock(i)
  \/ \E i \in Indices : OpenAndHeader(i)
  \/ \E i \in Indices : WriteRow(i)
  \/ \E i \in Indices : Collect(i)
  \/ Report
  \/ Interrupt

LiveNext ==
  \/ \E t \in Times : LiveStart(t, DefaultWindow)
  \/ LiveCapture
  \/ LiveEstimate
  \/ LiveCheckHeader
  \/ LiveOpenAndHeader
  \/ LiveWriteRow
  \/ LiveHousekeeping

\* live runs and backfill runs on one repository
Next == BackfillNext \/ LiveNext
Spec == Init /\ [][Next]_vars

\* a repository as live runs left it: snapshots inside the window, and a log
\* (if any) with the header and the row a live run wrote for the earliest of
\* them, stamped with the minute of the capture.  Rows stamped ":00" come
\* from the backfill runs themselves.
InWindowSlots == {f \in Slots : within_window(int10(f.stem), DEFAULT_START, DEFAULT_END)}
InitCorpora == {S \in SUBSET InWindowSlots : Cardinality(S) <= MaxImages}
FileTime(f) == TimeAt(f.year, f.month, f.day, int10(f.stem), 0)
Earliest(S) == {f \in S : \A g \in S : TimeKey(FileTime(f)) <= TimeKey(FileTime(g))}
InitRows(S) ==
  {Row(live_timestamp(TimeAt(f.year, f.month, f.day, int10(f.stem), mi)),
       Float(10), DescText) :
     f \in Earliest(S), mi \in Minutes \ {0}}
InitLogs(S) == {<<>>} \cup {<<HeaderLine, r>> : r \in InitRows(S)}

InitBackfill ==
  /\ corpus \in InitCorpora
  /\ csvLines \in InitLogs(corpus)
  /\ csvExists = (csvLines # <<>>)
  /\ apiKey \in BOOLEAN
  /\ est = EstIdle
  /\ BackfillIdle
  /\ LiveFresh

\* backfill runs alone, one after the other
SpecBackfill == InitBackfill /\ [][BackfillNext]_vars

\* one backfill run that nobody kills
BackfillRunNext ==
  \/ \E m \in Months, w \in 1..MaxWorkers : bpc = "idle" /\ BackfillLoad(m, w)
  \/ BackfillSubmit
  \/ \E i \in Indices : ItemEstimate(i)
  \/ \E i \in Indices : AcquireLock(i)
  \/ \E i \in Indices : OpenAndHeader(i)
  \/ \E i \in Indices : WriteRow(i)
  \/ \E i \in Indices : Collect(i)
  \/ Report

\* The main thread and every pool thread keep being scheduled, and every
\* call of the oracle client returns or raises: a step of the run that stays
\* possible is taken.  threading.Lock promises no order among its waiters,
\* hence no more than weak fairness for the thread waiting at csv_lock.
BackfillFairness ==
  /\ WF_vars(BackfillSubmit)
  /\ WF_vars(Report)
  /\ \A i \in 1..MaxImages :
       /\ WF_vars(ItemEstimate(i))
       /\ WF_vars(AcquireLock(i))
       /\ WF_vars(OpenAndHeader(i))
       /\ WF_vars(WriteRow(i))
       /\ WF_vars(Collect(i))

SpecBackfillFair == InitBackfill /\ [][BackfillRunNext]_vars /\ BackfillFairness

OracleNext ==
  \/ \E setupOk \in BOOLEAN : OracleBegin(setupOk)
  \/ OracleAttempt
  \/ \E setupOk \in BOOLEAN : OracleLive(setupOk)

\* estimates alone, one after the other, by either client
SpecOracle == Init /\ [][OracleNext]_vars

\* a repository as earlier live runs under some window left it: a few
\* snapshots around the days the runs start on (seven and six days before
\* them, the other side of a month and of a year boundary, hours inside and
\* outside the windows, hours equally far from noon), a month directory whose
\* files are gone, manifests of an earlier state, and the clock at the latest
\* snapshot
LiveSlots ==
  { SnapshotAt(ThisYear - 1, 12, 25, 13), SnapshotAt(ThisYear - 1, 12, 26, 9),
    SnapshotAt(ThisYear, 1, 1, 5), SnapshotAt(ThisYear, 1, 1, 9),
    SnapshotAt(ThisYear, 1, 1, 15),
    SnapshotAt(ThisYear, 1, 25, 13), SnapshotAt(ThisYear, 1, 26, 9),
    SnapshotAt(ThisYear, 1, 26, 15),
    SnapshotAt(ThisYear, 2, 1, 5), SnapshotAt(ThisYear, 2, 1, 15) }
LiveCorpora == {S \in SUBSET LiveSlots : Cardinality(S) <= MaxImages}
Windows == {DefaultWindow, Window(10, 19)}
EmptyDir == Date(ThisYear - 1, 11, 30)
StaleLast7 ==
  <<Entry(EmptyDir, Fmt2(13), [found |-> FALSE, none |-> TRUE, val |-> 0, cond |-> <<>>])>>
StaleMonths == <<[year |-> ThisYear - 1, month |-> 11]>>
LatestTime(S) ==
  IF S = {} THEN TimeAt(ThisYear - 1, 12, 25, 5, 0)
  ELSE FileTime(CHOOSE f \in S : \A g \in S : TimeKey(FileTime(g)) <= TimeKey(FileTime(f)))

InitLive ==
  /\ corpus \in LiveCorpora
  /\ csvLines \in InitLogs(corpus)
  /\ csvExists = (csvLines # <<>>)
  /\ apiKey \in BOOLEAN
  /\ est = EstIdle
  /\ BackfillIdle
  /\ LiveIdle
  /\ now = LatestTime(corpus)
  /\ dirs = DayDirs(corpus) \cup {EmptyDir}
  /\ dirOrder \in {StemsAscending, StemsDescending}
  /\ last7 = StaleLast7 /\ months = StaleMonths

LiveRunNext ==
  \/ \E t \in Times, w \in Windows : lpc = "idle" /\ LiveStart(t, w)
  \/ LiveCapture
  \/ LiveEstimate
  \/ LiveCheckHeader
  \/ LiveOpenAndHeader
  \/ LiveWriteRow
  \/ LiveHousekeeping

\* one live run on each such repository
SpecLive == InitLive /\ [][LiveRunNext]_vars

CaptureNext ==
  \/ \E page \in Pages, file \in {"absent", "old"} : CaptureBegin(page, file)
  \/ CaptureLoad
  \/ CaptureTop
  \/ CaptureFind
  \/ CaptureFrame
  \/ CaptureRestore
  \/ CaptureFull
  \/ CaptureCheck
  \/ CaptureResize

\* calls of capture_snapshot alone, one after the other
SpecCapture == Init /\ [][CaptureNext]_vars

(* ============================== claims ================================ *)
IsData(line) == line # HeaderLine
DataIndices(lines) == {k \in 1..Len(lines) : IsData(lines[k])}
\* the timestamp the log uses for a snapshot's hour
HourStamp(f) == Timestamp(f.year, f.month, f.day, f.stem, <<0, 0>>)
InRun == bpc \in {"pool", "reported"}
\* the lines this run has appended so far
Appended == SubSeq(csvLines, Len(log0) + 1, Len(csvLines))
RECURSIVE DataOf(_)
DataOf(lines) ==
  IF lines = <<>> THEN <<>>
  ELSE IF IsData(Head(lines)) THEN <<Head(lines)>> \o DataOf(Tail(lines))
  ELSE DataOf(Tail(lines))
MonthImages == {f \in corpus : f.year = ThisYear /\ f.month = bmonth}
Logged0 == {f \in MonthImages : \E k \in DataIndices(log0) : log0[k].ts = HourStamp(f)}
NoneRaised == \A i \in Indices : fut[i].st # "raised"

\* C1: a backfill run that starts from a log with pairwise distinct
\* timestamps leaves no two rows with the same timestamp, whatever the
\* worker count and the interleaving of the workers.
C1_UniqueTimestamps ==
  \A i, j \in DataIndices(csvLines) : i # j => csvLines[i].ts # csvLines[j].ts

\* a run with two workers, started from a log with a row, has reported
\* after both of its futures appended their rows
C1_Witness ==
  /\ bpc = "reported"
  /\ workers = 2
  /\ Len(log0) = 2
  /\ Len(to_process) = 2
  /\ \A i \in Indices : fut[i].st = "done"

\* C3: a run over a month with M images, E of them with their timestamp
\* in the log, dispatches exactly M - E images, each once; when no worker
\* raised it has appended exactly M - E rows at its report, one per
\* dispatched image.
C3_DispatchesMissing ==
  InRun =>
    /\ Len(to_process) = Cardinality(MonthImages) - Cardinality(Logged0)
    /\ \A i, j \in Indices : i # j => to_process[i] # to_process[j]
    /\ \A i \in Indices : to_process[i] \in MonthImages \ Logged0
    /\ (bpc = "reported" /\ NoneRaised) =>
         /\ Len(DataOf(Appended)) = Cardinality(MonthImages) - Cardinality(Logged0)
         /\ \A i \in Indices :
              Cardinality({k \in DataIndices(csvLines) :
                             k > Len(log0) /\ csvLines[k].ts = HourStamp(to_process[i])}) = 1

\* a month with two images, one of them logged: the run has dispatched the
\* other one and reported
C3_Witness ==
  /\ bpc = "reported"
  /\ NoneRaised
  /\ Cardinality(MonthImages) = 2
  /\ Cardinality(Logged0) = 1
  /\ Len(DataOf(Appended)) = 1

\* C5: the check of the file and the header-plus-row write of append_row
\* are one critical section: at most one worker is inside, the header is
\* the first line and occurs once, and the rows of the run are in the log in
\* the order in which the workers acquired the lock.
InsideLock(f) == f.st \in {"locked", "open"}
C5_CriticalSection ==
  /\ Cardinality({i \in Indices : InsideLock(fut[i])}) <= 1
  /\ \A k \in 1..Len(csvLines) : (csvLines[k] = HeaderLine) <=> (k = 1)
  /\ InRun =>
       LET rows == DataOf(Appended)
       IN  /\ Len(rows) <= Len(commits)
           /\ Len(commits) - Len(rows) <= 1
           /\ \A k \in 1..Len(rows) :
                rows[k].ts = HourStamp(to_process[commits[k]])

\* a run that created the log: the second image committed first, so the
\* rows are not in timestamp order, and the other worker waited for the lock
C5_Witness ==
  /\ bpc = "pool"
  /\ log0 = <<>>
  /\ Len(to_process) = 2
  /\ commits = <<2>>
  /\ fut[2].st = "open"
  /\ fut[1].st = "estimated"

\* C2: under any interleaving of live runs and backfill runs the log holds
\* at most one record per snapshot hour: a live append and a backfill append
\* for the same hour never both end up in the log.
SameHour(a, b) ==
  a.year = b.year /\ a.month = b.month /\ a.day = b.day /\ a.hh = b.hh
C2_OneRecordPerHour ==
  \A i, j \in DataIndices(csvLines) :
    i # j => ~SameHour(csvLines[i].ts, csvLines[j].ts)

\* C4: a rerun dispatches exactly the images whose timestamp is missing
\* from the log, and a rerun for the same month after a run that reached its
\* report appends nothing.
C4_Idempotent ==
  InRun =>
    /\ {to_process[i] : i \in Indices} = MonthImages \ Logged0
    /\ prevMonth = bmonth => Len(csvLines) = Len(log0)

\* C6: a future that raised does not abort the batch: main stays in the
\* pool with a step to take until its report, and at the report every other
\* future has run to completion with its row in the log.
RunStep ==
  \/ \E i \in Indices :
       ItemEstimate(i) \/ AcquireLock(i) \/ OpenAndHeader(i) \/ WriteRow(i) \/ Collect(i)
  \/ Report
C6_BatchSurvivesRaise ==
  /\ (\E i \in Indices : fut[i].st = "raised") =>
       \/ bpc = "reported"
       \/ bpc = "pool" /\ ENABLED RunStep
  /\ bpc = "reported" =>
       \A i \in Indices :
         \/ fut[i].st = "raised"
         \/ /\ fut[i].st = "done"
            /\ \E k \in DataIndices(csvLines) :
                 k > Len(log0) /\ csvLines[k].ts = HourStamp(to_process[i])

\* the first future raised, the second one appended its row, main reported
C6_Witness ==
  /\ bpc = "reported"
  /\ Len(to_process) = 2
  /\ fut[1].st = "raised"
  /\ fut[2].st = "done"
  /\ Len(DataOf(Appended)) = 1

\* C7: the reported count is the number of futures that did not raise;
\* a future whose estimate was the NaN sentinel is counted.
C7_ReportCountsSuccesses ==
  bpc = "reported" => reported = Cardinality({i \in Indices : fut[i].st = "done"})

(* --------------------------- oracle client ---------------------------- *)
CarriesMarker(e) ==
  \/ Contains(<<"4", "2", "9">>, e)
  \/ Contains(<<"r", "a", "t", "e", "_", "l", "i", "m", "i", "t">>, lower(e))
NanSpellings == {<<"n", "a", "n">>, <<"N", "a", "N">>, <<"N", "A", "N">>}
EstFinished == est.st \in {"returned", "raised"}
\* the response that ended the estimate decodes to an object whose
\* visibility field is "nan" in some letter case, or is missing
NanField ==
  /\ est.last.kind = "content"
  /\ \E k \in 1..Len(est.last.raw) :
       /\ est.last.raw[k].t = "obj"
       /\ \/ est.last.raw[k].obj.vk \in {"absent", "null"}
          \/ /\ est.last.raw[k].obj.vk = "str"
             /\ est.last.raw[k].obj.vs \in NanSpellings
\* every attempt the client may make was made and was rate-limited
AllRateLimited ==
  /\ est.calls = (IF est.client = "backfill" THEN 5 ELSE 1)
  /\ Len(est.errors) = est.calls
  /\ \A k \in 1..Len(est.errors) : CarriesMarker(est.errors[k])

\* C8: with the visibility field "nan" (any case) or absent, without the
\* credential, and with every attempt rate-limited, the estimate returns the
\* NaN sentinel as a value; without the credential it makes no call.
C8_SentinelNotException ==
  /\ (EstFinished /\ (~apiKey \/ NanField \/ AllRateLimited)) =>
       est.st = "returned" /\ IsNaN(est.vis)
  /\ (EstFinished /\ ~apiKey) => est.calls = 0 /\ est.desc = NotSet

\* the backfill client returned after five rate-limited calls
C8_Witness ==
  /\ est.client = "backfill"
  /\ est.st = "returned"
  /\ AllRateLimited
  /\ IsNaN(est.vis)

\* C9: a failure that is no rate limit ends the estimate at once with the
\* NaN sentinel and an error description, and no exception leaves
\* estimate_visibility, in either client.
C9_NeverRaises ==
  /\ est.st # "raised"
  /\ (est.st = "returned" /\ est.errors # <<>>
        /\ ~CarriesMarker(est.errors[Len(est.errors)])) =>
       /\ IsNaN(est.vis)
       /\ est.desc = <<"error: ">> \o est.errors[Len(est.errors)]

\* C10: one estimate of the backfill client makes at most 5 calls; a call
\* after the first follows a call that failed with the rate-limit marker; a
\* call that fails otherwise is the last one; five rate-limited calls give
\* the NaN sentinel with "error: rate limit retries exhausted".
C10_RetryPolicy ==
  est.client = "backfill" =>
    /\ est.calls <= 5
    /\ Len(est.errors) \in {est.calls - 1, est.calls}
    /\ \A k \in 1..(est.calls - 1) : CarriesMarker(est.errors[k])
    /\ est.st = "calling" =>
         /\ Len(est.errors) = est.calls
         /\ \A k \in 1..est.calls : CarriesMarker(est.errors[k])
    /\ (est.st = "returned" /\ AllRateLimited) =>
         /\ IsNaN(est.vis)
         /\ est.desc = <<"error: rate limit retries exhausted">>

\* four rate-limited calls, then a fifth one that was rate-limited too
C10_Witness ==
  /\ est.client = "backfill"
  /\ est.st = "returned"
  /\ est.calls = 5
  /\ Len(est.errors) = 5
  /\ est.desc = <<"error: rate limit retries exhausted">>

(* ------------------------------ live run ------------------------------ *)
InWindow(h) == within_window(h, window.start_h, window.end_h)
RunOver == lpc = "exited"

\* C11: for every hour outside [start_hour, end_hour], a live run at that
\* hour never creates a snapshot file (a file at its destination is one an
\* earlier run left), and once a run has done its housekeeping no snapshot
\* file of such an hour exists anywhere in the corpus.
C11_OutsideWindowClean ==
  /\ (lpc # "idle" /\ ~InWindow(now.hour)) =>
       /\ lcap.res = "none"
       /\ lcap.file \in {"absent", "old"}
       /\ (OutFile \in corpus => lcap.file = "old")
  /\ hk => \A f \in corpus : InWindow(int10(f.stem))

\* a run outside its window has removed the file an earlier run left at its
\* own destination, and a file of another day as well
C11_Witness ==
  /\ hk /\ ~InWindow(now.hour)
  /\ lcap.file = "old" /\ OutFile \notin corpus
  /\ corpus # {}

\* C12: a run whose capture inside the window failed still does the
\* housekeeping (cleanup, last-7-days, months index) before it exits non-zero.
C12_HousekeepingAfterFailure ==
  (RunOver /\ exitCode # 0) => hk

\* C13: the run exits non-zero only if a capture was attempted inside the
\* window and produced no file; a run outside the window, and a run whose
\* capture succeeded (whatever the oracle answered), exit with 0.
C13_ExitCode ==
  RunOver =>
    /\ exitCode # 0 => (InWindow(now.hour) /\ lcap.file # "image")
    /\ ~InWindow(now.hour) => exitCode = 0
    /\ lcap.res = "ok" => exitCode = 0

\* C15: a successful capture has written the image at the destination, and
\* after a failed capture no file (empty, partial or left by an earlier step)
\* is at the destination when the run is over.
C15_NoFileAfterFailure ==
  RunOver =>
    /\ lcap.res = "ok" => (lcap.file = "image" /\ OutFile \in corpus)
    /\ lcap.res = "raised" => OutFile \notin corpus

(* --------------------------- capture chain ---------------------------- *)
NoVideo(page) == ~page.video /\ \A k \in 1..Len(page.frames) : ~page.frames[k]
Rank(e, page) ==
  CASE e.tier = "top" -> 0
    [] e.tier = "frame" -> e.n
    [] OTHER -> Len(page.frames) + 1
CaptureEnded == cap.pc \in {"returned", "raised"}
WholeChain(page) ==
  <<Tier("top", 0, FALSE)>>
  \o [k \in 1..Len(page.frames) |-> Tier("frame", k, FALSE)]
  \o <<Tier("full", 0, FALSE)>>

\* C14: the tiers are attempted in the order top-level video, iframes in
\* document order, full page; a tier is attempted only if every attempt
\* before it failed; and on a page with no <video> in any browsing context
\* the full-page screenshot is taken (after every other tier) and, when the
\* driver works, its output passes the integrity check.
C14_FallbackOrder ==
  /\ \A j, k \in 1..Len(cap.trace) :
       j < k => /\ Rank(cap.trace[j], cap.page) < Rank(cap.trace[k], cap.page)
                /\ ~cap.trace[j].took
  /\ (NoVideo(cap.page) /\ cap.pc = "returned") =>
       cap.trace[Len(cap.trace)].tier = "full"
  /\ (NoVideo(cap.page) /\ CaptureEnded /\ ~cap.fault) =>
       /\ cap.pc = "returned"
       /\ cap.trace = WholeChain(cap.page)
       /\ cap.file = "image"

\* a page with iframes and no <video> anywhere, captured by the full-page
\* screenshot after every other tier
C14_Witness ==
  /\ NoVideo(cap.page) /\ Len(cap.page.frames) >= 2
  /\ cap.pc = "returned" /\ ~cap.fault
  /\ cap.file = "image"
  /\ Len(cap.trace) = Len(cap.page.frames) + 2

\* C19: an error thrown by a step of the chain is never fatal; a capture
\* reports failure only when the last tier is exhausted or the integrity
\* check fails.
C19_OnlyTotalFailure ==
  cap.pc = "raised" => cap.why \in {"full", "check"}

\* C20: once the iframe tier has run, the driver is in the top-level browsing
\* context for the full-page fallback and every later step, whether an iframe
\* attempt succeeded, failed or raised.
C20_TopLevelRestored ==
  (cap.i >= 1 /\ cap.pc \in {"full", "check", "resize", "returned"}) => cap.ctx = 0

\* the full-page fallback is about to run after an attempt inside an iframe
\* and a driver error in the loop
C20_Witness ==
  /\ cap.pc = "full" /\ cap.fault /\ cap.ctx = 0
  /\ \E k \in 1..Len(cap.trace) : cap.trace[k].tier = "frame"

(* ----------------------------- manifests ------------------------------ *)
Today == DateOf(now)
RecentDays == {minus_days(Today, k) : k \in 0..6}
Candidates(day) == {f \in corpus : DateOf(f) = day /\ InWindow(int10(f.stem))}
Dist(stem) == IF int10(stem) < 12 THEN 12 - int10(stem) ELSE int10(stem) - 12
Pos(stem) == CHOOSE k \in 1..Len(dirOrder) : dirOrder[k] = stem
DateKey(d) == (d.year * 13 + d.month) * 32 + d.day
MonthKey(ym) == ym.year * 13 + ym.month

\* C16: for every day among the 7 most recent that has an in-window
\* snapshot, the last-7-days entry of that day is a snapshot of that day,
\* inside the window, whose hour is as close to 12 as any in-window hour of
\* the day and, among those equally close, the first the directory yields; no
\* entry is a snapshot outside the window.
C16_ClosestToNoon ==
  hk =>
    /\ \A day \in RecentDays :
         Candidates(day) # {} =>
           \E k \in 1..Len(last7) :
             /\ last7[k].date = day
             /\ \E f \in Candidates(day) : f.stem = last7[k].time
             /\ \A g \in Candidates(day) :
                  \/ Dist(last7[k].time) < Dist(g.stem)
                  \/ /\ Dist(last7[k].time) = Dist(g.stem)
                     /\ Pos(last7[k].time) <= Pos(g.stem)
    /\ \A k \in 1..Len(last7) : InWindow(int10(last7[k].time))

\* a day with two in-window snapshots equally far from noon, one of them
\* chosen
C16_Witness ==
  /\ hk
  /\ \E k \in 1..Len(last7) : \E g \in Candidates(last7[k].date) :
       g.stem # last7[k].time /\ Dist(g.stem) = Dist(last7[k].time)

\* C17: the last-7-days manifest has at most 7 entries, at most one per day,
\* only for today and the 6 days before it, the most recent day first, and
\* none for a day without an in-window snapshot.
C17_Last7Shape ==
  hk =>
    /\ Len(last7) <= 7
    /\ \A j, k \in 1..Len(last7) :
         j < k => DateKey(last7[j].date) > DateKey(last7[k].date)
    /\ \A k \in 1..Len(last7) :
         /\ last7[k].date \in RecentDays
         /\ Candidates(last7[k].date) # {}

\* two days listed, a snapshot of the day seven days back left out
C17_Witness ==
  /\ hk /\ Len(last7) >= 2
  /\ \E f \in corpus : DateOf(f) = minus_days(Today, 7)

\* C18: after build_months_manifest the months index lists a (year, month)
\* pair exactly if a PNG exists under that month's directory, in ascending
\* order, no pair twice.
C18_MonthsIndex ==
  hk =>
    /\ \A k \in 1..Len(months) :
         \E f \in corpus : f.year = months[k].year /\ f.month = months[k].month
    /\ \A f \in corpus :
         \E k \in 1..Len(months) : months[k] = [year |-> f.year, month |-> f.month]
    /\ \A j, k \in 1..Len(months) : j < k => MonthKey(months[j]) < MonthKey(months[k])

\* months of two years listed, and the directory of a later month than the
\* first left without a file
C18_Witness ==
  /\ hk /\ Len(months) >= 2
  /\ months[1].year < months[Len(months)].year
  /\ \E d \in dirs \ {EmptyDir} :
       /\ \A f \in corpus : ~(f.year = d.year /\ f.month = d.month)
       /\ MonthKey(months[1]) < MonthKey(d)

\* the lines of the log that are records of the date and hour of an entry
RecordsFor(e) ==
  {k \in 2..Len(csvLines) :
     /\ csvLines[k].ts.year = e.date.year
     /\ csvLines[k].ts.month = e.date.month
     /\ csvLines[k].ts.day = e.date.day
     /\ csvLines[k].ts.hh = e.time}
LastRecord(e) == csvLines[Max(RecordsFor(e))]

\* C21: each last-7-days entry carries the visibility value and the
\* conditions text of a log record of its date and hour whenever the log has
\* such a record, and carries neither when it has none.
C21_Enriched ==
  hk => \A k \in 1..Len(last7) :
          IF RecordsFor(last7[k]) = {} THEN ~last7[k].enriched
          ELSE /\ last7[k].enriched
               /\ \E j \in RecordsFor(last7[k]) :
                    /\ csvLines[j].vis = <<last7[k].visibility_ft>>
                    /\ csvLines[j].cond = last7[k].conditions

\* C21, amended: an entry carries the value and the conditions of the last
\* log record of its date and hour when that record holds a number; it
\* carries neither when the log has no such record or the last one holds the
\* NaN sentinel (an empty value).
C21_EnrichedWhenMeasured ==
  hk => \A k \in 1..Len(last7) :
          IF RecordsFor(last7[k]) = {} \/ LastRecord(last7[k]).vis = <<>>
          THEN ~last7[k].enriched
          ELSE /\ last7[k].enriched
               /\ LastRecord(last7[k]).vis = <<last7[k].visibility_ft>>
               /\ LastRecord(last7[k]).cond = last7[k].conditions

\* an entry enriched from the later of two records of its hour
C21_Witness ==
  /\ hk
  /\ \E k \in 1..Len(last7) :
       last7[k].enriched /\ Cardinality(RecordsFor(last7[k])) >= 2

IsPrefix(a, b) == Len(a) <= Len(b) /\ a = SubSeq(b, 1, Len(a))
Has(event) == \E k \in 1..Len(ltrace) : ltrace[k] = event
WholeRun == <<"browser", "oracle", "row", "manifests">>

\* C22: a live run is sequential.  Inside the window it opens one browser
\* session, then (only when the capture succeeded and the file passed the
\* integrity check) calls the oracle client once, then appends one row, then
\* rebuilds the manifests; outside the window it opens no browser session,
\* calls no oracle and appends no row.
C22_LiveSequential ==
  /\ IsPrefix(ltrace, WholeRun) \/ ltrace = <<"manifests">>
  /\ (lpc # "idle" /\ ~InWindow(now.hour)) => IsPrefix(ltrace, <<"manifests">>)
  /\ Has("oracle") =>
       lcap.res = "ok" /\ lcap.file \in {"image", "old"} /\ OutFile \in corpus
  /\ Has("row") =>
       /\ csvLines # <<>>
       /\ csvLines[Len(csvLines)] = Row(live_timestamp(now), lres.vis, lres.desc)
  /\ (RunOver /\ lcap.res = "ok") => ltrace = WholeRun
  /\ (RunOver /\ exitCode = 0 /\ ~InWindow(now.hour)) => ltrace = <<"manifests">>

\* a run inside the window is over: capture, one degraded estimate, its row,
\* the manifests
C22_Witness ==
  /\ RunOver /\ InWindow(now.hour)
  /\ ltrace = WholeRun
  /\ IsNaN(lres.vis)
  /\ csvLines[Len(csvLines)].vis = <<>>

Dispatched(i) == bpc = "pool" /\ i \in Indices
Ended(i) == i \in Indices /\ Finished(fut[i])

\* C23: a backfill run that nobody kills terminates.  Every dispatched worker
\* ends, having appended its row or raised; csv_lock, once taken, is released;
\* and main, once it has read the log, reaches its final report.
C23_BackfillTerminates ==
  /\ \A i \in 1..MaxImages : Dispatched(i) ~> Ended(i)
  /\ (lock # 0) ~> (lock = 0)
  /\ (bpc = "loaded") ~> (bpc = "reported")

\* a run is over in which one worker raised and another appended its row
C23_Witness ==
  /\ bpc = "reported"
  /\ lock = 0
  /\ reported = Len(fut)
  /\ \E i, j \in Indices : fut[i].st = "raised" /\ fut[j].st = "done"

\* the rows of the log the run read that hold no visibility value
NanRows0 == {k \in DataIndices(log0) : log0[k].vis = <<>>}
\* the images a run over the same month would dispatch if it started now
Eligible ==
  LET todo == filter_unprocessed(month_images(corpus, bmonth), bmonth,
                                 load_existing_timestamps(csvExists, csvLines))
  IN  {todo[k] : k \in 1..Len(todo)}

\* C24: a worker whose estimate was the NaN sentinel appends a row with an
\* empty visibility value; the rows a run has read stay in the log, and no run
\* dispatches an image that has such a row; when a run reports, the images of
\* its month still eligible for a later run are those whose worker raised.
C24_NanNeverAgain ==
  /\ \A i \in Indices :
       (fut[i].st = "done" /\ IsNaN(fut[i].vis)) =>
         \E k \in (Len(log0) + 1)..Len(csvLines) :
           csvLines[k].ts = HourStamp(to_process[i]) /\ csvLines[k].vis = <<>>
  /\ InRun =>
       /\ IsPrefix(log0, csvLines)
       /\ \A i \in Indices, k \in NanRows0 : log0[k].ts # HourStamp(to_process[i])
  /\ bpc = "reported" =>
       Eligible = {to_process[i] : i \in {j \in Indices : fut[j].st = "raised"}}

\* a second run over a month: one image has its NaN row from the first run
\* and is left alone, the other has no row and is dispatched again
C24_Witness ==
  /\ InRun
  /\ prevMonth = bmonth
  /\ Len(to_process) = 1
  /\ \E f \in MonthImages, k \in NanRows0 :
       log0[k].ts = HourStamp(f) /\ f # to_process[1]
====
